---- MODULE Spec2Model ----
(***************************************************************************)
(* cocinero: the recipe-to-script compiler of src/main.rs.                  *)
(*                                                                         *)
(* Text (paths, commands, file contents, script lines) is a sequence of    *)
(* symbols.  A symbol is a one-character string ("a", "/", "_", " "), a    *)
(* fixed word of the program's format strings ("install", "-D", "./") or a *)
(* handlebars tag ("{{d}}").  A template is the raw text it was written as; *)
(* rendering replaces every tag by the value bound to its key.             *)
(***************************************************************************)
EXTENDS Integers, Sequences, FiniteSets, TLC

\* ------------------------------------------------------------------ bounds
MaxSteps == 2
MaxBindings == 2
MaxRuns == 2

\* ------------------------------------------------------- program constants
ChunkSize == 64
ExecBits == 320
OwnerExecBit == 8 * 8

\* mode of a file made by File::create: 0o666 less the usual umask 0o022
NewFileMode == 6 * 64 + 4 * 8 + 4

\* ------------------------------------------------------------------- text
Min(a, b) == IF a <= b THEN a ELSE b

RECURSIVE BitOr(_, _)
BitOr(a, b) ==
    IF a = 0 THEN b
    ELSE IF b = 0 THEN a
    ELSE (IF (a % 2 = 1) \/ (b % 2 = 1) THEN 1 ELSE 0) + 2 * BitOr(a \div 2, b \div 2)

HasOwnerExec(mode) == (mode \div OwnerExecBit) % 2 = 1

Digits == <<"0", "1", "2", "3", "4", "5", "6", "7", "8", "9">>

\* format!("{i}") of an index
RECURSIVE Decimal(_)
Decimal(n) ==
    IF n < 10 THEN <<Digits[n + 1]>>
    ELSE Decimal(n \div 10) \o <<Digits[(n % 10) + 1]>>

\* the handlebars tags of the model and the key each one references
Tags == {"{{d}}"}
KeyOf(tag) == IF tag = "{{d}}" THEN "d" ELSE "?"

\* a binding (one toml table of template_vars) is a set of <<key, value>> pairs
Defined(vars, key) == \E p \in vars : p[1] = key
Lookup(vars, key) == (CHOOSE p \in vars : p[1] = key)[2]

\* Handlebars rendering in strict mode: the text before the first tag whose
\* key is undefined is produced, then rendering fails.
RECURSIVE RenderLenient(_, _)
RenderLenient(tpl, vars) ==
    IF tpl = <<>> THEN [ok |-> TRUE, out |-> <<>>]
    ELSE LET rest == RenderLenient(Tail(tpl), vars)
             h == Head(tpl)
             v == IF h \in Tags
                  THEN (IF Defined(vars, KeyOf(h)) THEN Lookup(vars, KeyOf(h)) ELSE <<>>)
                  ELSE <<h>>
         IN [ok |-> TRUE, out |-> v \o rest.out]

RECURSIVE Render(_, _)
Render(tpl, vars) ==
    IF tpl = <<>> THEN [ok |-> TRUE, out |-> <<>>]
    ELSE LET h == Head(tpl)
         IN IF h \in Tags
            THEN IF Defined(vars, KeyOf(h))
                 THEN LET rest == Render(Tail(tpl), vars)
                      IN [ok |-> rest.ok, out |-> Lookup(vars, KeyOf(h)) \o rest.out]
                 ELSE [ok |-> FALSE, out |-> <<>>]
            ELSE LET rest == Render(Tail(tpl), vars)
                 IN [ok |-> rest.ok, out |-> <<h>> \o rest.out]

\* dest.replace('/', "__")
RECURSIVE MangleDropSlash(_)
MangleDropSlash(s) ==
    IF s = <<>> THEN <<>>
    ELSE (IF Head(s) = "/" THEN <<>> ELSE <<Head(s)>>) \o MangleDropSlash(Tail(s))

RECURSIVE Mangle(_)
Mangle(s) ==
    IF s = <<>> THEN <<>>
    ELSE (IF Head(s) = "/" THEN <<"_", "_">> ELSE <<Head(s)>>) \o Mangle(Tail(s))

\* script.with_added_extension(format!("{i}"))
RunDestNameNoIndex(script, i) == script

RunDestName(script, i) == script \o <<".">> \o Decimal(i)

\* content.contains("managed by cocinero"); the marker is the symbol "M"
HasDisclaimer(content) == \E k \in 1..Len(content) : content[k] = "M"

\* ----------------------------------------------------------------- inputs
None == <<>>
Some(x) == <<x>>

InstallStep(template, src, dest, mode) ==
    [kind |-> "install", template |-> template, src |-> src, dest |-> dest,
     mode |-> mode, cmd |-> <<>>, script |-> <<>>]
ShellStep(template, cmd) ==
    [kind |-> "shell", template |-> template, src |-> <<>>, dest |-> <<>>,
     mode |-> None, cmd |-> cmd, script |-> <<>>]
RunStep(template, script) ==
    [kind |-> "run", template |-> template, src |-> <<>>, dest |-> <<>>,
     mode |-> None, cmd |-> <<>>, script |-> script]

Receipe(packages, systemd, template_vars, steps) ==
    [packages |-> packages, systemd |-> systemd,
     template_vars |-> template_vars, steps |-> steps]

NoReceipe == Receipe(<<>>, <<>>, <<>>, <<>>)

\* the files of the recipes' source directories: raw content and permissions
SrcFile(name) ==
    CASE name = <<"f">> -> [content |-> <<"M", "a">>, mode |-> 6 * 64 + 4 * 8 + 4]
      [] name = <<"t">> -> [content |-> <<"M", "{{d}}">>, mode |-> 6 * 64 + 4 * 8 + 4]
      [] name = <<"s">> -> [content |-> <<"e", "{{d}}">>, mode |-> 6 * 64 + 4 * 8 + 4]
      [] OTHER -> [content |-> <<>>, mode |-> 7 * 64 + 5 * 8 + 5]

Steps ==
    { InstallStep(FALSE, <<"f">>, <<"/", "a">>, None),
      InstallStep(FALSE, <<"f">>, <<"/", "a">>, Some("644")),
      InstallStep(TRUE, <<"t">>, <<"{{d}}">>, Some("600")),
      ShellStep(FALSE, <<"l", "s">>),
      ShellStep(TRUE, <<"e", " ", "{{d}}">>),
      RunStep(FALSE, <<"s">>),
      RunStep(TRUE, <<"s">>) }

Values == { <<"/", "a">>, <<"_", "_", "a">>, <<"a">> }
Bindings == { {<<"d", v>>} : v \in Values } \cup { {} }

SeqsUpTo(S, n) == UNION { [1..k -> S] : k \in 0..n }

PkgNames == <<"p0", "p1">>
PkgList(n) == [i \in 1..n |-> PkgNames[(i % 2) + 1]]

Names == {"r1", "r2", "r3"}

Entry(kind, receipe) == [kind |-> kind, receipe |-> receipe]
Absent == Entry("absent", NoReceipe)

StepRecipe(tv, st) ==
    [n \in Names |-> IF n = "r1" THEN Entry("receipe", Receipe(<<"p0">>, <<"u0">>, tv, st))
                     ELSE Absent]

\* binding lists that render equal, colliding, distinct and undefined values
BindingPairs ==
    { <<>>,
      <<{<<"d", <<"a">>>>}>>,
      <<{<<"d", <<"/", "a">>>>}, {<<"d", <<"a">>>>}>>,
      <<{<<"d", <<"/", "a">>>>}, {<<"d", <<"_", "_", "a">>>>}>>,
      <<{<<"d", <<"a">>>>}, {}>>,
      <<{}, {<<"d", <<"a">>>>}>> }

\* one recipe: every list of bindings with at most one step, and every list
\* of steps with the binding lists above
StepInputs ==
    { StepRecipe(tv, st) : tv \in SeqsUpTo(Bindings, MaxBindings), st \in SeqsUpTo(Steps, 1) }
    \cup { StepRecipe(tv, st) : tv \in BindingPairs, st \in SeqsUpTo(Steps, MaxSteps) }

\* several directory entries whose packages, units and kind vary
DirInputs ==
    { [n \in Names |->
         CASE n = "r1" -> Entry("receipe", Receipe(PkgList(l1), u1, <<>>, s1))
           [] n = "r2" -> Entry("receipe", Receipe(PkgList(l2), <<"u2">>, <<b2>>, s2))
           [] OTHER -> Entry(k3, NoReceipe)] :
      l1 \in {0, 2, ChunkSize, ChunkSize + 1}, l2 \in {0, 1, ChunkSize},
      u1 \in {<<>>, <<"u0", "u1">>},
      s1 \in {<<>>, <<ShellStep(FALSE, <<"l", "s">>)>>},
      s2 \in {<<>>, <<ShellStep(TRUE, <<"e", " ", "{{d}}">>)>>},
      b2 \in {{<<"d", <<"a">>>>}, {}},
      k3 \in {"file", "notoml", "badtoml", "receipe"} }

Inputs == StepInputs \cup DirInputs

\* ------------------------------------------------------------------ state
VARIABLES
    entries,       \* the entries of the recipes directory (the input)
    pc,            \* position of main: start, packages, receipes, systemd, done
    result,        \* "Running", then main's Ok or Err
    all_receipes,  \* load_all_receipes: name -> Receipe
    order,         \* the iteration order of the HashMap all_receipes
    pkgPos,        \* position of the chunks iterator in the flattened packages
    idx,           \* position of the loop over all_receipes
    stepIdx,       \* position of the loop over receipe.steps (0: not begun)
    template_env,  \* the LazyCell<TemplateEnv>: forced, counter
    script,        \* the lines of <target>/cook.sh
    target,        \* <target>/<name>: the lines of _cook.sh and the staged files
    stdout,        \* the disclaimer warnings printed
    writes,        \* history: which step staged which file
    compiled,      \* history: the recipes whose steps are all compiled
    prev,          \* the output the previous run left
    runs           \* number of runs started

vars == <<entries, pc, result, all_receipes, order, pkgPos, idx, stepIdx,
          template_env, script, target, stdout, writes, compiled, prev, runs>>

\* a script line: its text, and as history its operands and the step and
\* binding it was written for
Line(kind, text) == [kind |-> kind, text |-> text, args |-> <<>>, step |-> 0, bind |-> 0]
StepLine(kind, text, args, step, bind) ==
    [kind |-> kind, text |-> text, args |-> args, step |-> step, bind |-> bind]

\* create_script: the six header lines
ScriptHeader ==
    << Line("header", <<"#!/usr/bin/bash">>), Line("header", <<>>),
       Line("header", <<"# Generated by cocinero">>), Line("header", <<>>),
       Line("header", <<"set -e">>), Line("header", <<>>) >>

\* the orders in which a HashMap holding the keys S may be iterated
Orders(S) ==
    { f \in [1..Cardinality(S) -> S] : \A i, j \in 1..Cardinality(S) : f[i] = f[j] => i = j }

Loaded(e) == { n \in Names : e[n].kind = "receipe" }

\* all_receipes.values().flat_map(|u| &u.packages)
RECURSIVE FlatPackages(_, _)
FlatPackages(ord, recs) ==
    IF ord = <<>> THEN <<>>
    ELSE recs[Head(ord)].packages \o FlatPackages(Tail(ord), recs)

\* the next chunk of packages.chunks(64)
ChunkAtOversize(flat, pos) == SubSeq(flat, pos, Min(pos + ChunkSize, Len(flat)))

ChunkAt(flat, pos) == SubSeq(flat, pos, Min(pos + ChunkSize - 1, Len(flat)))

RECURSIVE Spaced(_)
Spaced(pkgs) ==
    IF pkgs = <<>> THEN <<>> ELSE <<" ", Head(pkgs)>> \o Spaced(Tail(pkgs))

PackageLine(chunk) == Line("packages", <<"apt-get install">> \o Spaced(chunk))

RECURSIVE SystemdLines(_)
SystemdLines(units) ==
    IF units = <<>> THEN <<>>
    ELSE << Line("systemd", <<"systemctl enable --now ", Head(units)>>),
            Line("systemd", <<"systemctl reload-or-restart ", Head(units)>>) >>
         \o SystemdLines(Tail(units))

Outputs == [script |-> script, target |-> target, result |-> result]
NoOutputs == [script |-> <<>>, target |-> <<>>, result |-> "None"]

Init ==
    /\ entries \in Inputs
    /\ pc = "start"
    /\ result = "Running"
    /\ all_receipes = <<>>
    /\ order = <<>>
    /\ pkgPos = 1
    /\ idx = 1
    /\ stepIdx = 0
    /\ template_env = [forced |-> FALSE, counter |-> 0]
    /\ script = <<>>
    /\ target = <<>>
    /\ stdout = <<>>
    /\ writes = {}
    /\ compiled = {}
    /\ prev = NoOutputs
    /\ runs = 1

\* load_all_receipes fails on a receipe.toml that does not parse
LoadFails ==
    /\ pc = "start"
    /\ \E n \in Names : entries[n].kind = "badtoml"
    /\ pc' = "done"
    /\ result' = "Err"
    /\ UNCHANGED <<entries, all_receipes, order, pkgPos, idx, stepIdx, template_env,
                   script, target, stdout, writes, compiled, prev, runs>>

\* main up to the package loop: load, wipe the target, create cook.sh
Start ==
    /\ pc = "start"
    /\ \A n \in Names : entries[n].kind # "badtoml"
    /\ all_receipes' = [n \in Loaded(entries) |-> entries[n].receipe]
    /\ order' \in Orders(Loaded(entries))
    /\ target' = <<>>
    /\ script' = ScriptHeader \o <<Line("echo", <<"echo 'starting to cook'">>)>>
    /\ pc' = "packages"
    /\ UNCHANGED <<entries, result, pkgPos, idx, stepIdx, template_env, stdout,
                   writes, compiled, prev, runs>>

EmitPackageChunk ==
    /\ pc = "packages"
    /\ LET flat == FlatPackages(order, all_receipes)
           chunk == ChunkAt(flat, pkgPos)
       IN /\ pkgPos <= Len(flat)
          /\ script' = Append(script, PackageLine(chunk))
          /\ pkgPos' = pkgPos + Len(chunk)
    /\ UNCHANGED <<entries, pc, result, all_receipes, order, idx, stepIdx, template_env,
                   target, stdout, writes, compiled, prev, runs>>

EndPackages ==
    /\ pc = "packages"
    /\ pkgPos > Len(FlatPackages(order, all_receipes))
    /\ script' = Append(script, Line("blank", <<>>))
    /\ pc' = "receipes"
    /\ UNCHANGED <<entries, result, all_receipes, order, pkgPos, idx, stepIdx,
                   template_env, target, stdout, writes, compiled, prev, runs>>

\* ------------------------------------------------------- the recipe loop
CurName == order[idx]
CurReceipe == all_receipes[CurName]
InReceipes == pc = "receipes" /\ idx <= Len(order)

\* receipe.steps.is_empty()
IsSkippedNever(r) == FALSE

IsSkipped(r) == r.steps = <<>>

\* the two lines cook.sh gets for a recipe with steps
ReceipeLinesWithUnits(name) ==
    << Line("banner", <<"echo 'running receipe \"", name, "\"'">>),
       Line("invoke", <<"(cd ", name, " && ./_cook.sh)">>) >>
    \o SystemdLines(all_receipes[name].systemd)

ReceipeLines(name) ==
    << Line("banner", <<"echo 'running receipe \"", name, "\"'">>),
       Line("invoke", <<"(cd ", name, " && ./_cook.sh)">>) >>

SkipReceipe ==
    /\ InReceipes
    /\ stepIdx = 0
    /\ IsSkipped(CurReceipe)
    /\ idx' = idx + 1
    /\ UNCHANGED <<entries, pc, result, all_receipes, order, pkgPos, stepIdx,
                   template_env, script, target, stdout, writes, compiled, prev, runs>>

BeginReceipe ==
    /\ InReceipes
    /\ stepIdx = 0
    /\ ~IsSkipped(CurReceipe)
    /\ target' = (CurName :> [cook |-> ScriptHeader, files |-> <<>>]) @@ target
    /\ script' = script \o ReceipeLines(CurName)
    /\ stepIdx' = 1
    /\ UNCHANGED <<entries, pc, result, all_receipes, order, pkgPos, idx,
                   template_env, stdout, writes, compiled, prev, runs>>

EndReceipe ==
    /\ InReceipes
    /\ stepIdx > Len(CurReceipe.steps)
    /\ idx' = idx + 1
    /\ stepIdx' = 0
    /\ compiled' = compiled \cup {CurName}
    /\ UNCHANGED <<entries, pc, result, all_receipes, order, pkgPos,
                   template_env, script, target, stdout, writes, prev, runs>>

\* ------------------------------------------------------------- the steps
\* File::create: a new file gets the default mode, an existing one is
\* truncated and keeps its mode
CreateFile(files, fname, content) ==
    (fname :> [content |-> content,
               mode |-> IF fname \in DOMAIN files THEN files[fname].mode ELSE NewFileMode])
    @@ files

\* copy_create_dir: std::fs::copy copies the content and the permission bits
CopyFile(files, src, dst) == (dst :> SrcFile(src)) @@ files

\* chmod_plus_x
ChmodPlusX(files, fname) ==
    [files EXCEPT ![fname].mode = BitOr(files[fname].mode, ExecBits)]

\* check_managed_disclaimer
CheckManagedDisclaimer(out, rname, fname, content) ==
    IF HasDisclaimer(content) THEN out
    ELSE Append(out, [receipe |-> rname, file |-> fname])

\* install_in_script: args is built and the line is written without it
InstallText(install) ==
    LET args == IF install.mode # None THEN <<" ", "--mode=", install.mode[1]>> ELSE <<>>
    IN <<"install", " ", " ", "-D", " ">> \o install.src \o <<" ">> \o install.dest

\* the order in which a loop over n template_vars visits them
BindingOrderReversed(n) == [k \in 1..n |-> n - k + 1]

BindingOrder(n) == [k \in 1..n |-> k]

StartAcc(rname) ==
    [ok |-> TRUE, cook |-> target[rname].cook, files |-> target[rname].files,
     out |-> stdout, names |-> {}]

\* perform_install_file
InstallFile(st, rname, stepNo) ==
    LET acc == StartAcc(rname)
        files == CopyFile(acc.files, st.src, st.src)
    IN [acc EXCEPT
          !.files = files,
          !.names = {st.src},
          !.out = CheckManagedDisclaimer(acc.out, rname, st.src, files[st.src].content),
          !.cook = Append(acc.cook,
                          StepLine("install", InstallText(st), <<st.src, st.dest>>, stepNo, 0))]

\* perform_template_install: the loop over template_vars, from its k-th pass
RECURSIVE TemplateInstallLoop(_, _, _, _, _)
TemplateInstallLoop(st, rname, stepNo, k, acc) ==
    LET tvs == all_receipes[rname].template_vars
        n == Len(tvs)
    IN IF k > n \/ ~acc.ok THEN acc
       ELSE LET j == BindingOrder(n)[k]
                dest == Render(st.dest, tvs[j])
                dest_mangled == Mangle(dest.out)
                body == Render(SrcFile(st.src).content, tvs[j])
                files == CreateFile(acc.files, dest_mangled, body.out)
                install == [src |-> dest_mangled, dest |-> dest.out, mode |-> st.mode]
            IN IF ~dest.ok THEN [acc EXCEPT !.ok = FALSE]
               ELSE IF ~body.ok
               THEN [acc EXCEPT !.ok = FALSE, !.files = files,
                                !.names = acc.names \cup {dest_mangled}]
               ELSE TemplateInstallLoop(st, rname, stepNo, k + 1,
                      [acc EXCEPT
                         !.files = files,
                         !.names = acc.names \cup {dest_mangled},
                         !.out = CheckManagedDisclaimer(acc.out, rname, dest_mangled, body.out),
                         !.cook = Append(acc.cook,
                                    StepLine("install", InstallText(install),
                                             <<dest_mangled, dest.out>>, stepNo, j))])

\* Step::Shell, template: true; a failed render leaves the text it had written
RECURSIVE ShellTemplateLoop(_, _, _, _, _)
ShellTemplateLoop(st, rname, stepNo, k, acc) ==
    LET tvs == all_receipes[rname].template_vars
        n == Len(tvs)
    IN IF k > n \/ ~acc.ok THEN acc
       ELSE LET j == BindingOrder(n)[k]
                cmd == Render(st.cmd, tvs[j])
            IN IF ~cmd.ok
               THEN [acc EXCEPT
                       !.ok = FALSE,
                       !.cook = IF cmd.out = <<>> THEN acc.cook
                                ELSE Append(acc.cook,
                                            StepLine("partial", cmd.out, <<>>, stepNo, j))]
               ELSE ShellTemplateLoop(st, rname, stepNo, k + 1,
                      [acc EXCEPT
                         !.cook = Append(acc.cook,
                                         StepLine("shell", cmd.out, <<>>, stepNo, j))])

\* Step::Run, template: true
RECURSIVE RunTemplateLoop(_, _, _, _, _)
RunTemplateLoop(st, rname, stepNo, k, acc) ==
    LET tvs == all_receipes[rname].template_vars
        n == Len(tvs)
    IN IF k > n \/ ~acc.ok THEN acc
       ELSE LET j == BindingOrder(n)[k]
                dest_name == RunDestName(st.script, k - 1)
                body == Render(SrcFile(st.script).content, tvs[j])
                files == CreateFile(acc.files, dest_name, body.out)
            IN IF ~body.ok
               THEN [acc EXCEPT !.ok = FALSE, !.files = files,
                                !.names = acc.names \cup {dest_name}]
               ELSE RunTemplateLoop(st, rname, stepNo, k + 1,
                      [acc EXCEPT
                         !.files = ChmodPlusX(files, dest_name),
                         !.names = acc.names \cup {dest_name},
                         !.cook = Append(acc.cook,
                                         StepLine("run", <<"./">> \o dest_name,
                                                  <<dest_name>>, stepNo, j))])

\* Step::Run, template: false
RunPlain(st, rname, stepNo) ==
    LET acc == StartAcc(rname)
    IN [acc EXCEPT
          !.files = CopyFile(acc.files, st.script, st.script),
          !.names = {st.script},
          !.cook = Append(acc.cook,
                          StepLine("run", <<"./">> \o st.script, <<st.script>>, stepNo, 0))]

\* Step::Shell, template: false
ShellPlain(st, rname, stepNo) ==
    LET acc == StartAcc(rname)
    IN [acc EXCEPT !.cook = Append(acc.cook, StepLine("shell", st.cmd, <<>>, stepNo, 0))]

\* what a step leaves: the sub-script, the staged files, the warnings, the
\* template names taken (nreg), and main's return on a failed render
Commit(acc, nreg) ==
    /\ target' = [target EXCEPT ![CurName] = [cook |-> acc.cook, files |-> acc.files]]
    /\ stdout' = acc.out
    /\ writes' = writes \cup
                 { [receipe |-> CurName, step |-> stepIdx, name |-> f] : f \in acc.names }
    /\ template_env' = IF nreg > 0
                       THEN [forced |-> TRUE, counter |-> template_env.counter + nreg]
                       ELSE template_env
    /\ IF acc.ok
       THEN stepIdx' = stepIdx + 1 /\ UNCHANGED <<pc, result>>
       ELSE pc' = "done" /\ result' = "Err" /\ UNCHANGED stepIdx
    /\ UNCHANGED <<entries, all_receipes, order, pkgPos, idx, script, compiled, prev, runs>>

AtStep(kind, template) ==
    /\ InReceipes
    /\ stepIdx \in 1..Len(CurReceipe.steps)
    /\ CurReceipe.steps[stepIdx].kind = kind
    /\ CurReceipe.steps[stepIdx].template = template

CurStep == CurReceipe.steps[stepIdx]

StepInstallFile ==
    /\ AtStep("install", FALSE)
    /\ Commit(InstallFile(CurStep, CurName, stepIdx), 0)

StepTemplateInstall ==
    /\ AtStep("install", TRUE)
    /\ Commit(TemplateInstallLoop(CurStep, CurName, stepIdx, 1, StartAcc(CurName)), 2)

StepShellPlain ==
    /\ AtStep("shell", FALSE)
    /\ Commit(ShellPlain(CurStep, CurName, stepIdx), 0)

StepShellTemplate ==
    /\ AtStep("shell", TRUE)
    /\ Commit(ShellTemplateLoop(CurStep, CurName, stepIdx, 1, StartAcc(CurName)), 1)

StepRunPlain ==
    /\ AtStep("run", FALSE)
    /\ Commit(RunPlain(CurStep, CurName, stepIdx), 0)

StepRunTemplate ==
    /\ AtStep("run", TRUE)
    /\ Commit(RunTemplateLoop(CurStep, CurName, stepIdx, 1, StartAcc(CurName)), 1)

\* ------------------------------------------------------ the end of main
EndReceipes ==
    /\ pc = "receipes"
    /\ idx > Len(order)
    /\ script' = Append(script, Line("blank", <<>>))
    /\ pc' = "systemd"
    /\ idx' = 1
    /\ UNCHANGED <<entries, result, all_receipes, order, pkgPos, stepIdx,
                   template_env, target, stdout, writes, compiled, prev, runs>>

EmitSystemd ==
    /\ pc = "systemd"
    /\ idx <= Len(order)
    /\ script' = script \o SystemdLines(CurReceipe.systemd)
    /\ idx' = idx + 1
    /\ UNCHANGED <<entries, pc, result, all_receipes, order, pkgPos, stepIdx,
                   template_env, target, stdout, writes, compiled, prev, runs>>

Finish ==
    /\ pc = "systemd"
    /\ idx > Len(order)
    /\ pc' = "done"
    /\ result' = "Ok"
    /\ UNCHANGED <<entries, all_receipes, order, pkgPos, idx, stepIdx,
                   template_env, script, target, stdout, writes, compiled, prev, runs>>

\* the compiler is run again on the same recipes directory
Rerun ==
    /\ pc = "done"
    /\ runs < MaxRuns
    /\ runs' = runs + 1
    /\ prev' = Outputs
    /\ pc' = "start"
    /\ result' = "Running"
    /\ all_receipes' = <<>>
    /\ order' = <<>>
    /\ pkgPos' = 1
    /\ idx' = 1
    /\ stepIdx' = 0
    /\ template_env' = [forced |-> FALSE, counter |-> 0]
    /\ stdout' = <<>>
    /\ writes' = {}
    /\ compiled' = {}
    /\ UNCHANGED <<entries, script, target>>

Next ==
    \/ LoadFails
    \/ Start
    \/ EmitPackageChunk
    \/ EndPackages
    \/ SkipReceipe
    \/ BeginReceipe
    \/ StepInstallFile
    \/ StepTemplateInstall
    \/ StepShellPlain
    \/ StepShellTemplate
    \/ StepRunPlain
    \/ StepRunTemplate
    \/ EndReceipe
    \/ EndReceipes
    \/ EmitSystemd
    \/ Finish
    \/ Rerun

Spec == Init /\ [][Next]_vars

\* ================================================================ claims
CommandKinds == {"install", "shell", "run"}
Cook(n) == target[n].cook
Staged(n) == target[n].files
StepsOf(n) == all_receipes[n].steps
VarsOf(n) == all_receipes[n].template_vars

\* the output on disk is that of the current run
Current == pc # "start"
Completed == pc = "done" /\ result = "Ok"

KindAt(seq, kind) == { k \in 1..Len(seq) : seq[k].kind = kind }
LinesOfStep(n, i) == { k \in 1..Len(Cook(n)) : Cook(n)[k].step = i /\ Cook(n)[k].kind \in CommandKinds }
ArtifactsOfStep(n, i) == { w.name : w \in { x \in writes : x.receipe = n /\ x.step = i } }
Contains(text, sym) == \E k \in 1..Len(text) : text[k] = sym
EndsWith(text, suffix) ==
    /\ Len(text) >= Len(suffix)
    /\ SubSeq(text, Len(text) - Len(suffix) + 1, Len(text)) = suffix

\* the templates a step renders for each binding
TemplatesOf(st) ==
    CASE st.kind = "install" -> {st.dest, SrcFile(st.src).content}
      [] st.kind = "shell" -> {st.cmd}
      [] OTHER -> {SrcFile(st.script).content}
UndefinedRef(st, bvars) ==
    \E tpl \in TemplatesOf(st) : \E k \in 1..Len(tpl) :
        tpl[k] \in Tags /\ ~Defined(bvars, KeyOf(tpl[k]))

\* C1: two runs of the compiler on the same recipes leave identical cook.sh,
\* sub-scripts and staged files, and end alike.
C1_Deterministic ==
    (pc = "done" /\ prev.result # "None") => Outputs = prev

\* C2: in cook.sh every package line precedes every recipe invocation line
\* and every invocation line precedes every systemd line; a systemd line is
\* present only once every recipe with steps is compiled and staged.
C2_ThreePhaseOrder ==
    Current =>
      /\ \A a \in KindAt(script, "packages") : \A b \in KindAt(script, "invoke") : a < b
      /\ \A a \in KindAt(script, "invoke") : \A b \in KindAt(script, "systemd") : a < b
      /\ \A a \in KindAt(script, "packages") : \A b \in KindAt(script, "systemd") : a < b
      /\ KindAt(script, "systemd") # {} =>
           \A n \in DOMAIN all_receipes : StepsOf(n) # <<>> =>
              /\ n \in compiled
              /\ n \in DOMAIN target
              /\ \A i \in 1..Len(StepsOf(n)) :
                   /\ (~StepsOf(n)[i].template /\ StepsOf(n)[i].kind = "install")
                        => StepsOf(n)[i].src \in DOMAIN Staged(n)
                   /\ (~StepsOf(n)[i].template /\ StepsOf(n)[i].kind = "run")
                        => StepsOf(n)[i].script \in DOMAIN Staged(n)
                   /\ ~StepsOf(n)[i].template => Cardinality(LinesOfStep(n, i)) = 1

C2_Witness ==
    /\ Completed
    /\ KindAt(script, "packages") # {}
    /\ Cardinality(KindAt(script, "invoke")) >= 2
    /\ Cardinality(KindAt(script, "systemd")) >= 4

\* C3: the install line of an Install step with a mode ends with
\* --mode=<mode>, and that of a step without a mode has no --mode argument.
C3_ModeArgument ==
    Current =>
      \A n \in DOMAIN target : \A k \in KindAt(Cook(n), "install") :
         LET l == Cook(n)[k]
             mode == StepsOf(n)[l.step].mode
         IN /\ mode # None => EndsWith(l.text, <<" ", "--mode=", mode[1]>>)
            /\ mode = None => ~Contains(l.text, "--mode=")

\* C4: in a completed run a templated step of a recipe with N bindings has
\* exactly N command lines and (Install, Run) N distinct staged files; a
\* step that is not templated has exactly one of each.
C4_Cardinality ==
    Completed =>
      \A n \in DOMAIN target : \A i \in 1..Len(StepsOf(n)) :
         LET st == StepsOf(n)[i]
             N == IF st.template THEN Len(VarsOf(n)) ELSE 1
         IN /\ Cardinality(LinesOfStep(n, i)) = N
            /\ st.kind \in {"install", "run"} => Cardinality(ArtifactsOfStep(n, i)) = N

HasUnderscore(text) == Contains(text, "_")
RenderedDests(n, i) == { Render(StepsOf(n)[i].dest, VarsOf(n)[j]).out : j \in 1..Len(VarsOf(n)) }

\* C4, amended: as C4, but a templated Install stages at most N files, one
\* or more when N >= 1, and exactly N when its N rendered destinations are
\* pairwise different and none contains '_'.
C4_CardinalityAmended ==
    Completed =>
      \A n \in DOMAIN target : \A i \in 1..Len(StepsOf(n)) :
         LET st == StepsOf(n)[i]
             N == IF st.template THEN Len(VarsOf(n)) ELSE 1
             arts == Cardinality(ArtifactsOfStep(n, i))
         IN /\ Cardinality(LinesOfStep(n, i)) = N
            /\ (st.kind = "run" \/ (st.kind = "install" /\ ~st.template)) => arts = N
            /\ (st.kind = "install" /\ st.template) =>
                 /\ arts <= N
                 /\ N >= 1 => arts >= 1
                 /\ ( /\ Cardinality(RenderedDests(n, i)) = N
                      /\ \A d \in RenderedDests(n, i) : ~HasUnderscore(d) ) => arts = N

C4_Witness ==
    /\ Completed
    /\ \E n \in DOMAIN target : \E i, i2 \in 1..Len(StepsOf(n)) :
         /\ Len(VarsOf(n)) = 2
         /\ StepsOf(n)[i].kind = "install" /\ StepsOf(n)[i].template
         /\ Cardinality(ArtifactsOfStep(n, i)) = 2
         /\ StepsOf(n)[i2].kind = "run" /\ StepsOf(n)[i2].template
         /\ Cardinality(ArtifactsOfStep(n, i2)) = 2

\* C5: after the header the lines of a sub-script are in step order and,
\* within a step, in binding order, each line being that of its binding.
C5_SubScriptOrder ==
    Current =>
      \A n \in DOMAIN target :
         /\ SubSeq(Cook(n), 1, Len(ScriptHeader)) = ScriptHeader
         /\ \A a, b \in (Len(ScriptHeader) + 1)..Len(Cook(n)) : a < b =>
              \/ Cook(n)[a].step < Cook(n)[b].step
              \/ Cook(n)[a].step = Cook(n)[b].step /\ Cook(n)[a].bind < Cook(n)[b].bind
         /\ \A a \in (Len(ScriptHeader) + 1)..Len(Cook(n)) :
              LET l == Cook(n)[a]
                  st == StepsOf(n)[l.step]
              IN /\ l.step \in 1..Len(StepsOf(n))
                 /\ st.template => l.bind \in 1..Len(VarsOf(n))
                 /\ ~st.template => l.bind = 0
                 /\ (st.template /\ l.kind = "shell")
                      => l.text = Render(st.cmd, VarsOf(n)[l.bind]).out
                 /\ (st.template /\ l.kind = "install")
                      => l.args[2] = Render(st.dest, VarsOf(n)[l.bind]).out
                 /\ (st.template /\ l.kind = "run")
                      => /\ l.args[1] = st.script \o <<".">> \o Decimal(l.bind - 1)
                         /\ Staged(n)[l.args[1]].content
                              = Render(SrcFile(st.script).content, VarsOf(n)[l.bind]).out

C5_Witness ==
    /\ Completed
    /\ \E n \in DOMAIN target : \E a, b, c \in 1..Len(Cook(n)) :
         /\ Cook(n)[a].step = 1 /\ Cook(n)[a].bind = 1 /\ Cook(n)[a].kind = "shell"
         /\ Cook(n)[b].step = 1 /\ Cook(n)[b].bind = 2
         /\ Cook(n)[b].text # Cook(n)[a].text
         /\ Cook(n)[c].step = 2

\* C6: a recipe without steps gets no staging directory, no _cook.sh, no
\* banner and no invocation line; in a completed run a recipe with steps
\* has exactly one invocation line and its _cook.sh.
InvocationsOf(n) ==
    { k \in KindAt(script, "invoke") : script[k].text = <<"(cd ", n, " && ./_cook.sh)">> }
BannersOf(n) ==
    { k \in KindAt(script, "banner") : Contains(script[k].text, n) }

C6_SkipRule ==
    Current =>
      \A n \in DOMAIN all_receipes :
         /\ StepsOf(n) = <<>> =>
              n \notin DOMAIN target /\ InvocationsOf(n) = {} /\ BannersOf(n) = {}
         /\ (Completed /\ StepsOf(n) # <<>>) =>
              /\ Cardinality(InvocationsOf(n)) = 1
              /\ n \in DOMAIN target
              /\ SubSeq(Cook(n), 1, Len(ScriptHeader)) = ScriptHeader

C6_Witness ==
    /\ Completed
    /\ \E n, m \in DOMAIN all_receipes :
         /\ StepsOf(n) = <<>> /\ n \notin DOMAIN target
         /\ StepsOf(m) # <<>> /\ m \in DOMAIN target

\* C7: the package names on the package lines, in order, are the package
\* lists of the recipes in recipe order and declaration order, nothing
\* dropped or merged; each line names 1 to 64 packages.
NamesOn(line) == [k \in 1..((Len(line.text) - 1) \div 2) |-> line.text[2 * k + 1]]
PackageLines == SelectSeq(script, LAMBDA l : l.kind = "packages")
RECURSIVE Concat(_)
Concat(seqs) == IF seqs = <<>> THEN <<>> ELSE Head(seqs) \o Concat(Tail(seqs))

C8_RunFilesExecutable ==
    Current =>
      \A n \in DOMAIN target : \A k \in KindAt(Cook(n), "run") :
         /\ Cook(n)[k].args[1] \in DOMAIN Staged(n)
         /\ HasOwnerExec(Staged(n)[Cook(n)[k].args[1]].mode)

\* C9: a run in which a templated step renders a binding that leaves a
\* referenced key undefined ends in the error state: it does not return Ok,
\* it stops at that step, and no line of a later binding, step or recipe
\* and no systemd line is written.
C9_StrictRendering ==
    Current =>
      /\ result = "Ok" =>
           \A n \in DOMAIN target : \A i \in 1..Len(StepsOf(n)) : \A j \in 1..Len(VarsOf(n)) :
              StepsOf(n)[i].template => ~UndefinedRef(StepsOf(n)[i], VarsOf(n)[j])
      /\ result = "Err" => pc = "done"
      /\ \A n \in DOMAIN target : \A k \in 1..Len(Cook(n)) :
           Cook(n)[k].kind \in CommandKinds =>
             \A i \in 1..Len(StepsOf(n)) : \A j \in 1..Len(VarsOf(n)) :
                (StepsOf(n)[i].template /\ UndefinedRef(StepsOf(n)[i], VarsOf(n)[j])) =>
                   ~( \/ i < Cook(n)[k].step
                      \/ i = Cook(n)[k].step /\ j <= Cook(n)[k].bind )
      /\ (result = "Err" /\ order # <<>>) =>
           /\ KindAt(script, "systemd") = {}
           /\ idx \in 1..Len(order)
           /\ stepIdx \in 1..Len(StepsOf(order[idx]))
           /\ StepsOf(order[idx])[stepIdx].template
           /\ \E j \in 1..Len(VarsOf(order[idx])) :
                 UndefinedRef(StepsOf(order[idx])[stepIdx], VarsOf(order[idx])[j])
           /\ \A q \in (idx + 1)..Len(order) : order[q] \notin DOMAIN target

C9_Witness ==
    /\ result = "Err"
    /\ order # <<>>
    /\ stepIdx = 1
    /\ Len(StepsOf(order[idx])) = 2
    /\ Len(VarsOf(order[idx])) = 2
    /\ ~UndefinedRef(StepsOf(order[idx])[1], VarsOf(order[idx])[1])
    /\ Cardinality(LinesOfStep(order[idx], 1)) = 1

\* C10: the staging name of a templated Install is the rendered destination
\* with every '/' replaced by '__', and two bindings of one step with
\* different rendered destinations get different staging names.
SlashesBefore(text, k) == Cardinality({ m \in 1..(k - 1) : text[m] = "/" })
IsMangled(name, dest) ==
    /\ Len(name) = Len(dest) + SlashesBefore(dest, Len(dest) + 1)
    /\ \A k \in 1..Len(dest) :
          LET at == k + SlashesBefore(dest, k)
          IN IF dest[k] = "/" THEN name[at] = "_" /\ name[at + 1] = "_"
             ELSE name[at] = dest[k]
TemplatedInstallLines(n) ==
    { k \in KindAt(Cook(n), "install") : StepsOf(n)[Cook(n)[k].step].template }

C10_CollisionFree ==
    Current =>
      \A n \in DOMAIN target : \A a, b \in TemplatedInstallLines(n) :
         /\ IsMangled(Cook(n)[a].args[1], Cook(n)[a].args[2])
         /\ ( /\ Cook(n)[a].step = Cook(n)[b].step
              /\ Cook(n)[a].args[2] # Cook(n)[b].args[2] )
            => Cook(n)[a].args[1] # Cook(n)[b].args[1]

\* C10, amended: as C10, for two bindings whose different rendered
\* destinations contain no '_'.
C10_CollisionFreeNoUnderscore ==
    Current =>
      \A n \in DOMAIN target : \A a, b \in TemplatedInstallLines(n) :
         /\ IsMangled(Cook(n)[a].args[1], Cook(n)[a].args[2])
         /\ Cook(n)[a].args[1] \in DOMAIN Staged(n)
         /\ ( /\ Cook(n)[a].step = Cook(n)[b].step
              /\ Cook(n)[a].args[2] # Cook(n)[b].args[2]
              /\ ~HasUnderscore(Cook(n)[a].args[2])
              /\ ~HasUnderscore(Cook(n)[b].args[2]) )
            => Cook(n)[a].args[1] # Cook(n)[b].args[1]

C10_Witness ==
    /\ Completed
    /\ \E n \in DOMAIN target : \E a, b \in TemplatedInstallLines(n) :
         /\ Cook(n)[a].step = Cook(n)[b].step
         /\ Cook(n)[a].args[2] = <<"/", "a">>
         /\ Cook(n)[b].args[2] = <<"a">>
         /\ Cook(n)[a].args[1] # Cook(n)[b].args[1]

====
